---- MODULE Spec2Model ----
(***************************************************************************)
(* JSONGetTextBuilder (src/src/builder.rs): the builder that accumulates   *)
(* one table of texts per locale key in a Context and hands the Context    *)
(* and the default key to JSONGetText::from_context_with_default_key.      *)
(*                                                                         *)
(* A JSON document is modelled by its shape and, for an object, by the     *)
(* sequence of its members in document order (a member name may repeat).   *)
(* A HashMap is a function whose DOMAIN is its key set.                    *)
(***************************************************************************)
EXTENDS Integers, Sequences, FiniteSets, TLC

\* Longest member list of a JSON object / field list of a serializable value.
MaxPairs == 2

\* Locale keys passed as `key` to new and to the add operations.
Locales == {"en", "fr"}

\* Keys of the texts inside one locale table.
TextKeys == {"hello", "bye"}

\* Sample serde_json::Value scalars found as member values.
HelloValue == [type |-> "String", val |-> "Hello"]
OneValue == [type |-> "Number", val |-> "1"]
JsonValues == {HelloValue, OneValue}

\* Number literals that serde_json reads as a float.
FloatLiterals == {"1.5"}

VARIABLES
    default_key,  \* JSONGetTextBuilder.default_key
    context,      \* JSONGetTextBuilder.context : locale key -> table
    consumed,     \* TRUE once build(self) has taken the builder by value
    last,         \* the last call: operation, key, shape of its input, returned Result
    failedKeys,   \* history: keys whose add returned a wrapped codec or I/O error
    added         \* history: the <<key, table>> of every add that returned Ok, as a set

vars == <<default_key, context, consumed, last, failedKeys, added>>

----------------------------------------------------------------------------
\* HashMap

\* HashMap::new()
EmptyMap == [x \in {} |-> x]

\* HashMap::insert / serde_json::Map::insert: the new value replaces an old one.
Insert(m, k, v) == [x \in DOMAIN m \cup {k} |-> IF x = k THEN v ELSE m[x]]

\* HashMap::contains_key
ContainsKey(m, k) == k \in DOMAIN m

----------------------------------------------------------------------------
\* Inputs of the add operations

\* The members (name, value) a sample document is made of: "hello" comes
\* with either value, so that a repeated name can carry two values.
Members == {<<"hello", HelloValue>>, <<"hello", OneValue>>, <<"bye", HelloValue>>}

PairSeqs == UNION {[1..n -> Members] : n \in 0..MaxPairs}

\* JSON documents handed to add_json / add_json_owned or stored in a file:
\* text that is no JSON at all, a scalar, an array, or an object.
JsonTexts ==
    {[shape |-> s, pairs |-> <<>>] : s \in {"malformed", "scalar", "array"}}
        \cup {[shape |-> "object", pairs |-> p] : p \in PairSeqs}

\* What a path names: nothing that can be opened, or a file holding a document.
Files ==
    {[readable |-> FALSE, text |-> [shape |-> "malformed", pairs |-> <<>>]]}
        \cup {[readable |-> TRUE, text |-> t] : t \in JsonTexts}

\* Values implementing Serialize: one whose Serialize impl fails, a scalar,
\* a sequence, or a struct / map with its fields in serialization order.
Serializables ==
    {[shape |-> s, pairs |-> <<>>] : s \in {"unserializable", "scalar", "array"}}
        \cup {[shape |-> "object", pairs |-> p] : p \in PairSeqs}

----------------------------------------------------------------------------
\* JSONGetTextValue

\* JSONGetTextValue::from_json_value: the Text Value holding a parsed value.
from_json_value(v) ==
    CASE v.type = "Null"   -> [tag |-> "Null", val |-> ""]
      [] v.type = "Bool"   -> [tag |-> "Boolean", val |-> v.val]
      [] v.type = "Number" ->
            [tag |-> IF v.val \in FloatLiterals THEN "Float" ELSE "Integer", val |-> v.val]
      [] v.type = "String" -> [tag |-> "Text", val |-> v.val]

\* <JSONGetTextValue as Deserialize>: the Text Value read straight from the
\* document; a string may borrow from the input, which equality does not see.
deserialize_value(v) ==
    IF v.type = "String" THEN [tag |-> "Text", val |-> v.val] ELSE from_json_value(v)

TextValues == {from_json_value(v) : v \in JsonValues}

\* HashMap<String, JSONGetTextValue>: every table add_map can be given.
Tables ==
    {t \in UNION {[ks -> TextValues] : ks \in SUBSET TextKeys} :
        \A k \in DOMAIN t : \E m \in Members : m[1] = k /\ from_json_value(m[2]) = t[k]}

----------------------------------------------------------------------------
\* serde_json

RECURSIVE CollectMap(_, _)
\* The MapAccess visitor of serde_json::Map<String, Value>: members are
\* inserted in document order.
CollectMap(pairs, acc) ==
    IF pairs = <<>> THEN acc
    ELSE CollectMap(Tail(pairs), Insert(acc, Head(pairs)[1], Head(pairs)[2]))

RECURSIVE CollectTable(_, _)
\* The MapAccess visitor of HashMap<String, JSONGetTextValue>: each member
\* value is deserialized and inserted in document order.
CollectTable(pairs, acc) ==
    IF pairs = <<>> THEN acc
    ELSE CollectTable(Tail(pairs),
                      Insert(acc, Head(pairs)[1], deserialize_value(Head(pairs)[2])))

\* serde_json::from_str::<Map<String, Value>> (and from_reader): Err on text
\* that is no JSON and on JSON that is no object.
from_str_map(json) ==
    IF json.shape = "object"
    THEN [ok |-> TRUE, value |-> CollectMap(json.pairs, EmptyMap)]
    ELSE [ok |-> FALSE, value |-> EmptyMap]

\* serde_json::from_str::<HashMap<String, JSONGetTextValue>>
from_str_table(json) ==
    IF json.shape = "object"
    THEN [ok |-> TRUE, value |-> CollectTable(json.pairs, EmptyMap)]
    ELSE [ok |-> FALSE, value |-> EmptyMap]

\* serde_json::to_value: Err when the Serialize impl fails, else the Value.
to_value(value) ==
    CASE value.shape = "unserializable" -> [ok |-> FALSE, type |-> "Null", value |-> EmptyMap]
      [] value.shape = "object" ->
            [ok |-> TRUE, type |-> "Object", value |-> CollectMap(value.pairs, EmptyMap)]
      [] value.shape = "array"  -> [ok |-> TRUE, type |-> "Array", value |-> EmptyMap]
      [] OTHER -> [ok |-> TRUE, type |-> "String", value |-> EmptyMap]

\* The literal "\"MagicLen\"": a JSON document that is one string.
MagicLenText == [shape |-> "scalar", pairs |-> <<>>]

\* File::open
FileOpen(path) == [ok |-> path.readable, text |-> path.text]

\* Mutant of ConvertEntries: the loop stops one entry short.
ConvertEntries_short(value) ==
    LET kept == IF DOMAIN value = {} THEN {}
                ELSE DOMAIN value \ {CHOOSE k \in DOMAIN value : TRUE}
    IN [k \in kept |-> from_json_value(value[k])]

\* for (k, v) in value { map.insert(k, JSONGetTextValue::from_json_value(v)); }
ConvertEntries(value) == [k \in DOMAIN value |-> from_json_value(value[k])]

----------------------------------------------------------------------------
\* JSONGetTextBuildError and the returned Result

OkResult == [kind |-> "Ok", key |-> "", text |-> ""]
DuplicatedKey(key) == [kind |-> "DuplicatedKey", key |-> key, text |-> ""]
SerdeJSONError == [kind |-> "SerdeJSONError", key |-> "", text |-> ""]
IOError == [kind |-> "IOError", key |-> "", text |-> ""]
DefaultKeyNotFound == [kind |-> "DefaultKeyNotFound", key |-> "", text |-> ""]
TextInKeyNotInDefaultKey(key, text) ==
    [kind |-> "TextInKeyNotInDefaultKey", key |-> key, text |-> text]
\* unreachable!()
Panic == [kind |-> "Panic", key |-> "", text |-> ""]
\* Ok(JSONGetText)
Built == [kind |-> "Built", key |-> "", text |-> ""]

AddOps == {"add_json", "add_json_owned", "add_json_file", "add_serialize", "add_map"}

\* The table a caller means by an input, when the input names one: an object
\* whose member names are pairwise distinct stands for the table that maps
\* each name to its value.  Stated on the members, independent of the parser.
NoTable == [has |-> FALSE, table |-> EmptyMap]
LogicalTable(input) ==
    IF /\ input.shape = "object"
       /\ \A i, j \in DOMAIN input.pairs : input.pairs[i][1] = input.pairs[j][1] => i = j
    THEN [has |-> TRUE,
          table |-> [k \in {input.pairs[i][1] : i \in DOMAIN input.pairs} |->
                        from_json_value(
                            (CHOOSE m \in {input.pairs[i] : i \in DOMAIN input.pairs} :
                                m[1] = k)[2])]]
    ELSE NoTable

\* The call returns `res` to its caller and leaves the Context `ctx`.  The
\* table the input stood for is kept with the record of a call that inserted.
Return(op, key, shape, logical, res, ctx) ==
    /\ context' = ctx
    /\ last' = [op |-> op, key |-> key, shape |-> shape,
                logical |-> IF res.kind = "Ok" THEN logical ELSE NoTable, res |-> res]
    /\ failedKeys' = IF res.kind \in {"SerdeJSONError", "IOError"}
                     THEN failedKeys \cup {key} ELSE failedKeys
    /\ added' = IF res.kind = "Ok" THEN added \cup {<<key, ctx[key]>>} ELSE added
    /\ UNCHANGED <<default_key, consumed>>

----------------------------------------------------------------------------
\* JSONGetTextBuilder

\* JSONGetTextBuilder::new(default_key)
Init ==
    /\ default_key \in Locales
    /\ context = EmptyMap
    /\ consumed = FALSE
    /\ last = [op |-> "new", key |-> default_key, shape |-> "none",
               logical |-> NoTable, res |-> OkResult]
    /\ failedKeys = {}
    /\ added = {}

\* JSONGetTextBuilder::add_json
add_json(key, json) ==
    /\ ~consumed
    /\ IF ContainsKey(context, key)
       THEN Return("add_json", key, json.shape, LogicalTable(json), DuplicatedKey(key), context)
       ELSE LET map == from_str_table(json) IN
            IF ~map.ok
            THEN Return("add_json", key, json.shape, LogicalTable(json), SerdeJSONError, context)
            ELSE Return("add_json", key, json.shape, LogicalTable(json), OkResult,
                        Insert(context, key, map.value))

\* Mutant of add_json_owned: the new table replaces the Context instead of
\* joining it.
add_json_owned_replacing(key, json) ==
    /\ ~consumed
    /\ IF ContainsKey(context, key)
       THEN Return("add_json_owned", key, json.shape, LogicalTable(json),
                   DuplicatedKey(key), context)
       ELSE LET value == from_str_map(json) IN
            IF ~value.ok
            THEN Return("add_json_owned", key, json.shape, LogicalTable(json),
                        SerdeJSONError, context)
            ELSE Return("add_json_owned", key, json.shape, LogicalTable(json), OkResult,
                        Insert(EmptyMap, key, ConvertEntries(value.value)))

\* JSONGetTextBuilder::add_json_owned
add_json_owned(key, json) ==
    /\ ~consumed
    /\ IF ContainsKey(context, key)
       THEN Return("add_json_owned", key, json.shape, LogicalTable(json),
                   DuplicatedKey(key), context)
       ELSE LET value == from_str_map(json) IN
            IF ~value.ok
            THEN Return("add_json_owned", key, json.shape, LogicalTable(json),
                        SerdeJSONError, context)
            ELSE Return("add_json_owned", key, json.shape, LogicalTable(json), OkResult,
                        Insert(context, key, ConvertEntries(value.value)))

\* Mutant of add_json_file: the file is opened before the Context is asked
\* for the key.
add_json_file_open_first(key, path) ==
    /\ ~consumed
    /\ LET shape == IF path.readable THEN path.text.shape ELSE "unreadable"
           logical == IF path.readable THEN LogicalTable(path.text) ELSE NoTable
           file == FileOpen(path)
       IN
       IF ~file.ok
       THEN Return("add_json_file", key, shape, logical, IOError, context)
       ELSE IF ContainsKey(context, key)
       THEN Return("add_json_file", key, shape, logical, DuplicatedKey(key), context)
       ELSE LET value == from_str_map(file.text) IN
            IF ~value.ok
            THEN Return("add_json_file", key, shape, logical, SerdeJSONError, context)
            ELSE Return("add_json_file", key, shape, logical, OkResult,
                        Insert(context, key, ConvertEntries(value.value)))

\* Mutant of add_json_file: the key is entered with an empty table before the
\* document is decoded, and stays when decoding fails.
add_json_file_early_insert(key, path) ==
    /\ ~consumed
    /\ LET shape == IF path.readable THEN path.text.shape ELSE "unreadable"
           logical == IF path.readable THEN LogicalTable(path.text) ELSE NoTable
       IN
       IF ContainsKey(context, key)
       THEN Return("add_json_file", key, shape, logical, DuplicatedKey(key), context)
       ELSE LET file == FileOpen(path) IN
            IF ~file.ok
            THEN Return("add_json_file", key, shape, logical, IOError, context)
            ELSE LET value == from_str_map(file.text) IN
                 IF ~value.ok
                 THEN Return("add_json_file", key, shape, logical, SerdeJSONError,
                             Insert(context, key, EmptyMap))
                 ELSE Return("add_json_file", key, shape, logical, OkResult,
                             Insert(context, key, ConvertEntries(value.value)))

\* JSONGetTextBuilder::add_json_file
add_json_file(key, path) ==
    /\ ~consumed
    /\ LET shape == IF path.readable THEN path.text.shape ELSE "unreadable"
           logical == IF path.readable THEN LogicalTable(path.text) ELSE NoTable
       IN
       IF ContainsKey(context, key)
       THEN Return("add_json_file", key, shape, logical, DuplicatedKey(key), context)
       ELSE LET file == FileOpen(path) IN
            IF ~file.ok
            THEN Return("add_json_file", key, shape, logical, IOError, context)
            ELSE LET value == from_str_map(file.text) IN
                 IF ~value.ok
                 THEN Return("add_json_file", key, shape, logical, SerdeJSONError, context)
                 ELSE Return("add_json_file", key, shape, logical, OkResult,
                             Insert(context, key, ConvertEntries(value.value)))

\* Mutant of add_serialize: the non-object arm goes straight to unreachable!().
add_serialize_unreachable(key, value) ==
    /\ ~consumed
    /\ IF ContainsKey(context, key)
       THEN Return("add_serialize", key, value.shape, LogicalTable(value),
                   DuplicatedKey(key), context)
       ELSE LET v == to_value(value) IN
            IF ~v.ok
            THEN Return("add_serialize", key, value.shape, LogicalTable(value),
                        SerdeJSONError, context)
            ELSE IF v.type = "Object"
            THEN Return("add_serialize", key, value.shape, LogicalTable(value), OkResult,
                        Insert(context, key, ConvertEntries(v.value)))
            ELSE Return("add_serialize", key, value.shape, LogicalTable(value), Panic, context)

\* JSONGetTextBuilder::add_serialize.  In the arm for a Value that is no
\* object, `?` returns the error of decoding "\"MagicLen\"" as a Map, and
\* unreachable!() is met only if that decoding succeeds.
add_serialize(key, value) ==
    /\ ~consumed
    /\ IF ContainsKey(context, key)
       THEN Return("add_serialize", key, value.shape, LogicalTable(value),
                   DuplicatedKey(key), context)
       ELSE LET v == to_value(value) IN
            IF ~v.ok
            THEN Return("add_serialize", key, value.shape, LogicalTable(value),
                        SerdeJSONError, context)
            ELSE IF v.type = "Object"
            THEN Return("add_serialize", key, value.shape, LogicalTable(value), OkResult,
                        Insert(context, key, ConvertEntries(v.value)))
            ELSE IF ~from_str_map(MagicLenText).ok
            THEN Return("add_serialize", key, value.shape, LogicalTable(value),
                        SerdeJSONError, context)
            ELSE Return("add_serialize", key, value.shape, LogicalTable(value), Panic, context)

\* Mutant of add_map: no look-up of the key, the insert overwrites.
add_map_overwriting(key, map) ==
    /\ ~consumed
    /\ Return("add_map", key, "object", [has |-> TRUE, table |-> map], OkResult,
              Insert(context, key, map))

\* Mutant of add_map: the first locale added becomes the default key.
add_map_setting_default(key, map) ==
    /\ ~consumed
    /\ LET res == IF ContainsKey(context, key) THEN DuplicatedKey(key) ELSE OkResult
           ctx == IF ContainsKey(context, key) THEN context ELSE Insert(context, key, map)
       IN /\ context' = ctx
          /\ last' = [op |-> "add_map", key |-> key, shape |-> "object",
                      logical |-> IF res.kind = "Ok" THEN [has |-> TRUE, table |-> map]
                                  ELSE NoTable,
                      res |-> res]
          /\ added' = IF res.kind = "Ok" THEN added \cup {<<key, map>>} ELSE added
          /\ default_key' = IF context = EmptyMap THEN key ELSE default_key
          /\ UNCHANGED <<consumed, failedKeys>>

\* Mutant of add_map: the table is checked against the default table when it
\* is added.
add_map_validating(key, map) ==
    /\ ~consumed
    /\ IF ContainsKey(context, key)
       THEN Return("add_map", key, "object", [has |-> TRUE, table |-> map],
                   DuplicatedKey(key), context)
       ELSE IF key # default_key /\ ~ContainsKey(context, default_key)
       THEN Return("add_map", key, "object", [has |-> TRUE, table |-> map],
                   DefaultKeyNotFound, context)
       ELSE Return("add_map", key, "object", [has |-> TRUE, table |-> map], OkResult,
                   Insert(context, key, map))

\* JSONGetTextBuilder::add_map
add_map(key, map) ==
    /\ ~consumed
    /\ IF ContainsKey(context, key)
       THEN Return("add_map", key, "object", [has |-> TRUE, table |-> map],
                   DuplicatedKey(key), context)
       ELSE Return("add_map", key, "object", [has |-> TRUE, table |-> map], OkResult,
                   Insert(context, key, map))

\* JSONGetText::from_context_with_default_key: the Results it may return.  The
\* tables are visited in the HashMap's iteration order, which is unspecified,
\* so any missing text can be the one reported.
from_context_with_default_key(dk, ctx) ==
    IF ~ContainsKey(ctx, dk) THEN {DefaultKeyNotFound}
    ELSE LET missing == {kt \in (DOMAIN ctx \ {dk}) \X TextKeys :
                            /\ kt[2] \in DOMAIN ctx[kt[1]]
                            /\ kt[2] \notin DOMAIN ctx[dk]}
         IN IF missing = {} THEN {Built}
            ELSE {TextInKeyNotInDefaultKey(kt[1], kt[2]) : kt \in missing}

\* Mutant of build: a fresh Context is handed over instead of self.context.
build_empty_context ==
    /\ ~consumed
    /\ \E res \in from_context_with_default_key(default_key, EmptyMap) :
          last' = [op |-> "build", key |-> default_key, shape |-> "none",
                   logical |-> NoTable, res |-> res]
    /\ consumed' = TRUE
    /\ UNCHANGED <<default_key, context, failedKeys, added>>

\* Mutant of build: some key of the Context is handed over as the default key.
build_other_key ==
    /\ ~consumed
    /\ \E dk \in DOMAIN context \cup {default_key} :
          \E res \in from_context_with_default_key(dk, context) :
              last' = [op |-> "build", key |-> dk, shape |-> "none",
                       logical |-> NoTable, res |-> res]
    /\ consumed' = TRUE
    /\ UNCHANGED <<default_key, context, failedKeys, added>>

\* JSONGetTextBuilder::build.
\* self is moved into build: the builder takes no call afterwards.  `context`
\* keeps the value that was moved, for the Result to be read against.
build ==
    /\ ~consumed
    /\ \E res \in from_context_with_default_key(default_key, context) :
          last' = [op |-> "build", key |-> default_key, shape |-> "none",
                   logical |-> NoTable, res |-> res]
    /\ consumed' = TRUE
    /\ UNCHANGED <<default_key, context, failedKeys, added>>

Next ==
    \/ \E key \in Locales, json \in JsonTexts : add_json(key, json)
    \/ \E key \in Locales, json \in JsonTexts : add_json_owned(key, json)
    \/ \E key \in Locales, path \in Files : add_json_file(key, path)
    \/ \E key \in Locales, value \in Serializables : add_serialize(key, value)
    \/ \E key \in Locales, map \in Tables : add_map(key, map)
    \/ build

Spec == Init /\ [][Next]_vars

----------------------------------------------------------------------------
\* Properties

\* The shapes of an input that cannot be decoded, opened or serialized.
BadShapes == {"malformed", "scalar", "array", "unreadable", "unserializable"}

\* The step is a call of an add operation.
AddCalled == last'.op \in AddOps

\* C1: an add whose key is already in the Context returns DuplicatedKey with
\* that key and leaves the Context as it was; and no step of any operation
\* removes an entry of the Context or changes its table, so a key keeps the
\* table of the first add that succeeded for it.
C1_DuplicateRejected ==
    [][/\ (AddCalled /\ ContainsKey(context, last'.key)) =>
            /\ last'.res = DuplicatedKey(last'.key)
            /\ context' = context
       /\ \A k \in DOMAIN context : ContainsKey(context', k) /\ context'[k] = context[k]
      ]_vars

\* C1 witness: an add was refused as a duplicate while the Context held the
\* key with its table.
C1_Witness ==
    /\ last.op \in AddOps
    /\ last.res = DuplicatedKey(last.key)
    /\ ContainsKey(context, last.key)
    /\ <<last.key, context[last.key]>> \in added

\* C2: when the Context holds the default key, build returns Ok exactly when
\* the texts of every other table are texts of the default table; otherwise it
\* returns TextInKeyNotInDefaultKey naming a non-default key of the Context and
\* a text of that table that the default table lacks.
C2_BuildChecksVocabulary ==
    (last.op = "build" /\ ContainsKey(context, default_key)) =>
        /\ last.res = Built <=>
              \A k \in DOMAIN context \ {default_key} :
                  DOMAIN context[k] \subseteq DOMAIN context[default_key]
        /\ last.res # Built =>
              /\ last.res.kind = "TextInKeyNotInDefaultKey"
              /\ last.res.key \in DOMAIN context \ {default_key}
              /\ last.res.text \in DOMAIN context[last.res.key]
              /\ last.res.text \notin DOMAIN context[default_key]

\* C2 witness: build succeeded with a translated locale whose texts are a
\* proper subset of the default table's.
C2_Witness ==
    /\ last.op = "build"
    /\ last.res = Built
    /\ ContainsKey(context, default_key)
    /\ \E k \in DOMAIN context \ {default_key} :
          /\ DOMAIN context[k] # {}
          /\ DOMAIN context[k] # DOMAIN context[default_key]

\* C3: build on a Context without the default key returns DefaultKeyNotFound,
\* whatever other tables the Context holds.
C3_DefaultRequired ==
    (last.op = "build" /\ ~ContainsKey(context, default_key)) =>
        last.res = DefaultKeyNotFound

\* C3 witness: build returned DefaultKeyNotFound on a Context that holds
\* another locale with texts.
C3_Witness ==
    /\ last.op = "build"
    /\ last.res = DefaultKeyNotFound
    /\ ~ContainsKey(context, default_key)
    /\ \E k \in DOMAIN context : DOMAIN context[k] # {}

\* C4: an add that returns Ok was given a key the Context lacked, and leaves
\* the Context with that one key more, mapped to the table supplied, and with
\* every earlier entry as it was.
C4_OneNewEntry ==
    [][(AddCalled /\ last'.res = OkResult) =>
            /\ ~ContainsKey(context, last'.key)
            /\ DOMAIN context' = DOMAIN context \cup {last'.key}
            /\ Cardinality(DOMAIN context') = Cardinality(DOMAIN context) + 1
            /\ \A k \in DOMAIN context : context'[k] = context[k]
            /\ last'.logical.has => context'[last'.key] = last'.logical.table
      ]_vars

\* C4 witness: an add returned Ok on a Context that already held a locale.
C4_Witness ==
    /\ last.op \in AddOps
    /\ last.res = OkResult
    /\ last.logical.has
    /\ Cardinality(DOMAIN context) = 2

\* C5: an add that returns a wrapped codec or I/O error leaves the Context as
\* it was and the builder open; and once an add has failed so, an add of a key
\* the Context lacks, given an object, returns Ok and enters the key.
C5_FailedAddInsertsNothing ==
    [][/\ (AddCalled /\ last'.res.kind \in {"SerdeJSONError", "IOError"}) =>
            /\ context' = context
            /\ ~consumed'
       /\ (AddCalled /\ failedKeys # {} /\ ~ContainsKey(context, last'.key)
               /\ last'.shape = "object") =>
            /\ last'.res = OkResult
            /\ ContainsKey(context', last'.key)
      ]_vars

\* C5 witness: an add returned Ok for a key whose earlier add had failed with
\* a codec or I/O error.
C5_Witness ==
    /\ last.op \in AddOps
    /\ last.res = OkResult
    /\ last.key \in failedKeys
    /\ ContainsKey(context, last.key)

\* C6 as claimed: add_serialize given a value that serializes to a scalar or
\* an array, for a key the Context lacks, panics.
C6_Original ==
    (/\ last.op = "add_serialize"
     /\ last.shape \in {"scalar", "array"}
     /\ last.res.kind # "DuplicatedKey") => last.res = Panic

\* C6 as amended: add_serialize given a value that serializes to a scalar or
\* an array, for a key the Context lacks, returns the wrapped codec error to
\* its caller and leaves the Context as it was; no call panics.
C6_NonObjectIsCodecError ==
    [][/\ (/\ last'.op = "add_serialize"
           /\ last'.shape \in {"scalar", "array"}
           /\ ~ContainsKey(context, last'.key)) =>
            /\ last'.res = SerdeJSONError
            /\ context' = context
       /\ last'.res # Panic
      ]_vars

\* C6 witness: add_serialize returned the codec error for a scalar or array.
C6_Witness ==
    /\ last.op = "add_serialize"
    /\ last.shape \in {"scalar", "array"}
    /\ last.res = SerdeJSONError

C8_DefaultKeyFixed ==
    [][/\ default_key' = default_key
       /\ last'.op = "build" => last'.key = default_key
      ]_vars

\* C8 witness: build has run after an add failed with a codec or I/O error
\* and an add for a key other than the default key succeeded.
C8_Witness ==
    /\ last.op = "build"
    /\ failedKeys # {}
    /\ \E k \in DOMAIN context : k # default_key

\* C9: an add whose key is already in the Context returns DuplicatedKey also
\* when its input cannot be decoded, opened or serialized.
C9_DuplicateCheckFirst ==
    [][(AddCalled /\ ContainsKey(context, last'.key) /\ last'.shape \in BadShapes) =>
            last'.res.kind = "DuplicatedKey"
      ]_vars

\* C9 witness: a path that cannot be opened was given for a key the Context
\* holds, and the call returned DuplicatedKey.
C9_Witness ==
    /\ last.op = "add_json_file"
    /\ last.shape = "unreadable"
    /\ last.res.kind = "DuplicatedKey"

\* The Context that a set of <<key, table>> stands for.
ContextOf(pairs) ==
    [k \in {p[1] : p \in pairs} |-> (CHOOSE p \in pairs : p[1] = k)[2]]

\* The kind of Result build owes to a set of <<key, table>>.
BuildKindOf(pairs, dk) ==
    IF \A p \in pairs : p[1] # dk THEN "DefaultKeyNotFound"
    ELSE IF \E p, d \in pairs :
               /\ d[1] = dk
               /\ p[1] # dk
               /\ ~(DOMAIN p[2] \subseteq DOMAIN d[2])
    THEN "TextInKeyNotInDefaultKey"
    ELSE "Built"

\* C10: an add of a key the Context lacks, given an object, returns Ok
\* whether or not the default table is there and whatever texts the table
\* has; the Context is the one the set of successful adds stands for, and the
\* kind of Result of build is the one owed to that set, so neither depends on
\* the order of the adds.
C10_NoValidationAtAdd ==
    /\ [][(AddCalled /\ ~ContainsKey(context, last'.key) /\ last'.shape = "object") =>
                last'.res = OkResult]_vars
    /\ [](/\ context = ContextOf(added)
          /\ \A p, q \in added : p[1] = q[1] => p = q
          /\ last.op = "build" => last.res.kind = BuildKindOf(added, default_key))

\* C10 witness: an add returned Ok for a non-default locale with texts while
\* the Context held no default table.
C10_Witness ==
    /\ last.op \in AddOps
    /\ last.res = OkResult
    /\ last.key # default_key
    /\ ~ContainsKey(context, default_key)
    /\ DOMAIN context[last.key] # {}

====
